---- MODULE Spec2Model ----
(***************************************************************************)
(* Model of q2_metadata/normalization/_io_utils.py: discovery of rule and  *)
(* database files, the rule parser with its skip to the last comment line, *)
(* the get_rules orchestrator, the inverse index get_rules_dict and the    *)
(* database loader get_databases.                                          *)
(*                                                                         *)
(* Python values are modelled as follows.                                  *)
(*   dict   a sequence of [key, val] records with distinct keys, in        *)
(*          insertion order (Python dicts keep insertion order)            *)
(*   path   a record [dir, stem, ext]: the directory components, the file  *)
(*          name without its last extension, and that extension; the path  *)
(*          string is dir joined by "/" then stem then ext, stem non-empty *)
(*          and not starting with a dot                                    *)
(*   file   a sequence of lines, each line given by what its stripped text *)
(*          is: a comment ("#"), a top-level "key: value" entry (named by  *)
(*          its key) or text no YAML token can start with ("@")            *)
(*   rule   the value yaml.load returns: None or a dict, of which only the *)
(*          keys (in order) are kept                                       *)
(***************************************************************************)
EXTENDS Integers, Sequences, FiniteSets, TLC

VARIABLES files, pc, category, paths, pos, rules, issues, missing, databases,
          ret, exc, failed, parsed, checked, noComment, wellFormed, stdout, call

vars == <<files, pc, category, paths, pos, rules, issues, missing, databases,
          ret, exc, failed, parsed, checked, noComment, wellFormed, stdout, call>>

(* ------------------------------ bounds --------------------------------- *)
\* longest file, in lines
MaxLines == 3
\* most columns of a RuleSet handed to get_rules_dict directly
MaxColumns == 2

(* --------------------------- Python builtins --------------------------- *)
Range(s) == {s[n] : n \in 1..Len(s)}

Last(s) == s[Len(s)]

Orders(S) == {s \in [1..Cardinality(S) -> S] : Range(s) = S}

DictKeys(d) == [n \in 1..Len(d) |-> d[n].key]

DictHas(d, k) == \E n \in 1..Len(d) : d[n].key = k

DictGet(d, k) == d[CHOOSE n \in 1..Len(d) : d[n].key = k].val

\* d[k] = v: an existing key keeps its position
DictSet(d, k, v) ==
    IF DictHas(d, k)
    THEN [n \in 1..Len(d) |-> IF d[n].key = k THEN [key |-> k, val |-> v] ELSE d[n]]
    ELSE Append(d, [key |-> k, val |-> v])

\* dict(pairs)
RECURSIVE DictFromPairs(_, _)
DictFromPairs(d, pairs) ==
    IF pairs = <<>> THEN d
    ELSE DictFromPairs(DictSet(d, Head(pairs)[1], Head(pairs)[2]), Tail(pairs))

\* str.endswith on a path string, for a suffix that is an extension
endswith(path, suffix) == path.ext = suffix

(* ------------------------------ the files ------------------------------ *)
root_dir == "root"

RulesDir == <<root_dir, "normalization", "rules">>

DatabasesDir == <<root_dir, "normalization", "databases">>

Path(dir, stem, ext) == [dir |-> dir, stem |-> stem, ext |-> ext]

RuleDirFiles ==
    { Path(RulesDir, "country", ".yml"), Path(RulesDir, "height_cm", ".yml"),
      Path(RulesDir, "notes", ".yml"), Path(RulesDir, "country", ".csv") }

DatabaseDirFiles ==
    { Path(Append(DatabasesDir, "countries"), "list", ".csv"),
      Path(Append(DatabasesDir, "countries"), "extra", ".csv"),
      Path(Append(DatabasesDir, "units"), "list", ".csv"),
      Path(Append(DatabasesDir, "units"), "readme", ".yml"),
      Path(DatabasesDir, "index", ".csv") }

Comment == "#"

Malformed == "@"

ConstraintLines == {"blank", "format", "missing"}

LineKinds == {Comment, Malformed} \cup ConstraintLines

FileContents == UNION {[1..n -> LineKinds] : n \in 0..MaxLines}

NoneRule == [tag |-> "none", keys |-> <<>>]

DictRule(ks) == [tag |-> "dict", keys |-> ks]

Returned(rule) == [status |-> "ok", exc |-> "", rule |-> rule]

Raised(e) == [status |-> "raise", exc |-> e, rule |-> NoneRule]

(* ------------------------- check_file_existence ------------------------ *)
check_file_existence(path, data) ==
    IF data = "rule" /\ endswith(path, ".yml")
    THEN [ret |-> TRUE, printed |-> FALSE]
    ELSE IF data = "database" /\ endswith(path, ".csv")
    THEN [ret |-> TRUE, printed |-> FALSE]
    ELSE [ret |-> FALSE, printed |-> TRUE]

(* ---------------------------- parse_yml_file --------------------------- *)
\* 0-based indices of the lines whose stripped text starts with '#'
comment_lines_indices(lines) ==
    SelectSeq([n \in 1..Len(lines) |-> n - 1], LAMBDA x : lines[x + 1] = Comment)

\* no line skipped: the whole file reaches the loader
readline_never(lines, n) == lines

\* what is left on the handle after n calls of readline()
readline_times(lines, n) == SubSeq(lines, n + 1, Len(lines))

\* the keys of a mapping document in the order the loader inserts them
RECURSIVE construct_mapping(_, _)
construct_mapping(ks, entries) ==
    IF entries = <<>> THEN ks
    ELSE construct_mapping(IF Head(entries) \in Range(ks) THEN ks
                           ELSE Append(ks, Head(entries)), Tail(entries))

\* yaml.load(handle, Loader=yaml.FullLoader) on the rest of the handle
yaml_load(stream) ==
    IF \E n \in 1..Len(stream) : stream[n] = Malformed
    THEN Raised("YAMLError")
    ELSE LET entries == SelectSeq(stream, LAMBDA l : l # Comment)
         IN  IF entries = <<>> THEN Returned(NoneRule)
             ELSE Returned(DictRule(construct_mapping(<<>>, entries)))

\* a file without comment lines parsed from its first line
parse_yml_file_no_precondition(yml_path, file) ==
    IF ~check_file_existence(yml_path, "rule").ret THEN Returned(DictRule(<<>>))
    ELSE IF ~file.exists THEN Raised("FileNotFoundError")
    ELSE LET idx == comment_lines_indices(file.lines)
         IN  IF idx = <<>> THEN yaml_load(file.lines)
             ELSE yaml_load(readline_times(file.lines, Last(idx)))

\* the file opened before the guard is consulted
parse_yml_file_open_first(yml_path, file) ==
    IF ~file.exists THEN Raised("FileNotFoundError")
    ELSE LET idx == comment_lines_indices(file.lines)
         IN  IF idx = <<>> THEN Raised("IndexError")
             ELSE IF ~check_file_existence(yml_path, "rule").ret
             THEN Returned(DictRule(<<>>))
             ELSE yaml_load(readline_times(file.lines, Last(idx)))

parse_yml_file(yml_path, file) ==
    IF ~check_file_existence(yml_path, "rule").ret THEN Returned(DictRule(<<>>))
    ELSE IF ~file.exists THEN Raised("FileNotFoundError")
    ELSE LET idx == comment_lines_indices(file.lines)
         IN  IF idx = <<>> THEN Raised("IndexError")
             ELSE yaml_load(readline_times(file.lines, Last(idx)))

(* ----------------------------- get_rules_dict -------------------------- *)
\* the column put in front of the list instead of at its end
setdefault_prepend(d, v, k) ==
    IF DictHas(d, v) THEN DictSet(d, v, <<k>> \o DictGet(d, v))
    ELSE DictSet(d, v, <<k>>)

\* d.setdefault(v, []).append(k)
setdefault_append(d, v, k) ==
    IF DictHas(d, v) THEN DictSet(d, v, Append(DictGet(d, v), k))
    ELSE DictSet(d, v, <<k>>)

RECURSIVE for_v_in_vs(_, _, _)
for_v_in_vs(d, k, vs) ==
    IF vs = <<>> THEN d
    ELSE for_v_in_vs(setdefault_append(d, Head(vs), k), k, Tail(vs))

RECURSIVE for_k_vs_in_items(_, _)
for_k_vs_in_items(d, items) ==
    IF items = <<>> THEN d
    ELSE for_k_vs_in_items(for_v_in_vs(d, Head(items).key, Head(items).val.keys),
                           Tail(items))

get_rules_dict(rs) == for_k_vs_in_items(<<>>, rs)

(* ----------------------------- get_paths_dict -------------------------- *)
\* patterns ending in * instead of *.csv and *.yml
glob_any_extension(fs, db_rule) ==
    IF db_rule = "databases"
    THEN Orders({p \in fs : /\ Len(p.dir) = Len(DatabasesDir) + 1
                             /\ SubSeq(p.dir, 1, Len(DatabasesDir)) = DatabasesDir})
    ELSE IF db_rule = "rules"
    THEN Orders({p \in fs : p.dir = RulesDir})
    ELSE {<<>>}

\* the lists glob may return for the category's pattern: the matching files
\* in any order (no glob is called for another category)
glob(fs, db_rule) ==
    IF db_rule = "databases"
    THEN Orders({p \in fs : /\ Len(p.dir) = Len(DatabasesDir) + 1
                             /\ SubSeq(p.dir, 1, Len(DatabasesDir)) = DatabasesDir
                             /\ p.ext = ".csv"})
    ELSE IF db_rule = "rules"
    THEN Orders({p \in fs : p.dir = RulesDir /\ p.ext = ".yml"})
    ELSE {<<>>}

get_paths_dict(globbed, db_rule) ==
    IF db_rule = "databases"
    THEN DictFromPairs(<<>>, [n \in 1..Len(globbed) |->
                                <<globbed[n].dir[Len(globbed[n].dir)], globbed[n]>>])
    ELSE IF db_rule = "rules"
    THEN DictFromPairs(<<>>, [n \in 1..Len(globbed) |-> <<globbed[n].stem, globbed[n]>>])
    ELSE <<>>

(* ------------------------------- get_rules ----------------------------- *)
mandatory_rules == <<"blank", "format">>

\* no allow-list: every discovered rule name is processed
every_rule_name == {"country", "height_cm", "notes"}

allowed_rule_names == {"country", "height_cm"}

\* the check stopping at the first mandatory constraint that is absent
missing_of_first_only(rule_name, rule) ==
    LET absent == SelectSeq(mandatory_rules, LAMBDA m : m \notin Range(rule.keys))
    IN  IF absent = <<>> THEN <<>> ELSE <<(<<rule_name, absent[1], 1>>)>>

\* [[rule_name, m, 1] for m in mandatory_rules if m not in rule]
missing_of(rule_name, rule) ==
    LET absent == SelectSeq(mandatory_rules, LAMBDA m : m \notin Range(rule.keys))
    IN  [n \in 1..Len(absent) |-> <<rule_name, absent[n], 1>>]

\* the external checker: returns the issues it was given, extended by those
\* it found in this rule
traverse_rules(rule_name, rule, issues_so_far, found) ==
    issues_so_far \o found

\* what the checker may find in one rule: nothing, or a nonconformance
IssuesFound(rule_name) == {<<>>, <<[rule |-> rule_name]>>}

NoRet == [kind |-> "none", rules |-> <<>>, rules_dict |-> <<>>, issues |-> <<>>,
          missing |-> <<>>, databases |-> <<>>]

\* the file whose parsing raised
NoFile == [name |-> "", lines |-> <<>>]

NoCall == [fn |-> "", path |-> Path(<<>>, "", ""), kind |-> "",
           file |-> [exists |-> FALSE, lines |-> <<>>], rules |-> <<>>,
           guard |-> [ret |-> FALSE, printed |-> FALSE],
           parse |-> Raised(""), index |-> <<>>]

\* history: what the files opened so far were like
comment_free(lines) == \A n \in 1..Len(lines) : lines[n] # Comment

well_formed(lines) ==
    /\ ~comment_free(lines)
    /\ \A n \in 1..Len(lines) : lines[n] # Malformed

\* get_rules up to the loop: the template is loaded, the rule files discovered
GetRulesStart ==
    /\ pc = "idle"
    /\ \E globbed \in glob(files, "rules") :
           paths' = get_paths_dict(globbed, "rules")
    /\ pc' = "rules_loop"
    /\ category' = "rules"
    /\ pos' = 0
    /\ rules' = <<>>
    /\ issues' = <<>>
    /\ missing' = <<>>
    /\ UNCHANGED <<files, databases, ret, exc, failed, parsed, checked, noComment,
                   wellFormed, stdout, call>>

\* an iteration for a rule name outside the allow-list: continue
GetRulesContinue ==
    /\ pc = "rules_loop"
    /\ pos < Len(paths)
    /\ paths[pos + 1].key \notin allowed_rule_names
    /\ pos' = pos + 1
    /\ UNCHANGED <<files, pc, category, paths, rules, issues, missing, databases,
                   ret, exc, failed, parsed, checked, noComment, wellFormed,
                   stdout, call>>

\* an iteration that parses the rule, records what is missing and has the rule
\* checked
GetRulesBody ==
    /\ pc = "rules_loop"
    /\ pos < Len(paths)
    /\ paths[pos + 1].key \in allowed_rule_names
    /\ \E lines \in FileContents, found \in IssuesFound(paths[pos + 1].key) :
         LET rule_name == paths[pos + 1].key
             rule_path == paths[pos + 1].val
             p == parse_yml_file(rule_path, [exists |-> TRUE, lines |-> lines])
             guard == check_file_existence(rule_path, "rule")
         IN  /\ p.status = "ok"
             /\ p.rule.tag = "dict"
             /\ rules' = DictSet(rules, rule_name, p.rule)
             /\ missing' = missing \o missing_of(rule_name, p.rule)
             /\ issues' = traverse_rules(rule_name, p.rule, issues, found)
             /\ parsed' = IF guard.ret THEN parsed \cup {rule_name} ELSE parsed
             /\ checked' = checked \cup {rule_name}
             /\ noComment' = IF guard.ret /\ comment_free(lines)
                              THEN noComment \cup {rule_name} ELSE noComment
             /\ wellFormed' = (wellFormed /\ (guard.ret => well_formed(lines)))
             /\ stdout' = IF guard.printed THEN Append(stdout, rule_path) ELSE stdout
    /\ pos' = pos + 1
    /\ UNCHANGED <<files, pc, category, paths, databases, ret, exc, failed,
                   call>>

\* an iteration in which parse_yml_file raises, or returns None so that the
\* test "m not in rule" raises: the error leaves get_rules
GetRulesRaise ==
    /\ pc = "rules_loop"
    /\ pos < Len(paths)
    /\ paths[pos + 1].key \in allowed_rule_names
    /\ \E lines \in FileContents :
         LET rule_name == paths[pos + 1].key
             rule_path == paths[pos + 1].val
             p == parse_yml_file(rule_path, [exists |-> TRUE, lines |-> lines])
         IN  /\ p.status = "raise" \/ p.rule.tag = "none"
             /\ exc' = IF p.status = "raise" THEN p.exc ELSE "TypeError"
             /\ rules' = IF p.status = "raise" THEN rules
                         ELSE DictSet(rules, rule_name, p.rule)
             /\ failed' = [name |-> rule_name, lines |-> lines]
             /\ parsed' = parsed \cup {rule_name}
             /\ noComment' = IF comment_free(lines)
                              THEN noComment \cup {rule_name} ELSE noComment
             /\ wellFormed' = (wellFormed /\ well_formed(lines))
    /\ pc' = "rules_raised"
    /\ UNCHANGED <<files, category, paths, pos, issues, missing, databases, ret,
                   checked, stdout, call>>

\* after the loop: the index is built and the four results are returned
GetRulesReturn ==
    /\ pc = "rules_loop"
    /\ pos = Len(paths)
    /\ ret' = [NoRet EXCEPT !.kind = "rules", !.rules = rules,
                            !.rules_dict = get_rules_dict(rules),
                            !.issues = issues, !.missing = missing]
    /\ pc' = "rules_returned"
    /\ UNCHANGED <<files, category, paths, pos, rules, issues, missing, databases,
                   exc, failed, parsed, checked, noComment, wellFormed, stdout, call>>

(* ------------------------------ get_databases -------------------------- *)
\* pd.read_csv(db_path, ...): the table read from the file
read_csv(db_path) == [table_of |-> db_path]

GetDatabasesStart ==
    /\ pc = "idle"
    /\ \E globbed \in glob(files, "databases") :
           paths' = get_paths_dict(globbed, "databases")
    /\ pc' = "databases_loop"
    /\ category' = "databases"
    /\ pos' = 0
    /\ databases' = <<>>
    /\ UNCHANGED <<files, rules, issues, missing, ret, exc, failed, parsed,
                   checked, noComment, wellFormed, stdout, call>>

\* one iteration that skips a rejected path instead of returning {}
GetDatabasesIter_skip ==
    /\ pc = "databases_loop"
    /\ pos < Len(paths)
    /\ LET db == paths[pos + 1].key
           db_path == paths[pos + 1].val
           guard == check_file_existence(db_path, "database")
       IN  /\ stdout' = IF guard.printed THEN Append(stdout, db_path) ELSE stdout
           /\ databases' = IF guard.ret THEN DictSet(databases, db, read_csv(db_path))
                            ELSE databases
    /\ pos' = pos + 1
    /\ UNCHANGED <<files, pc, category, paths, rules, issues, missing, ret, exc,
                   failed, parsed, checked, noComment, wellFormed, call>>

\* one iteration: return {} if the guard rejects the path, else load the table
GetDatabasesIter ==
    /\ pc = "databases_loop"
    /\ pos < Len(paths)
    /\ LET db == paths[pos + 1].key
           db_path == paths[pos + 1].val
           guard == check_file_existence(db_path, "database")
       IN  /\ stdout' = IF guard.printed THEN Append(stdout, db_path) ELSE stdout
           /\ IF ~guard.ret
              THEN /\ ret' = [NoRet EXCEPT !.kind = "databases", !.databases = <<>>]
                   /\ pc' = "databases_returned"
                   /\ UNCHANGED <<pos, databases>>
              ELSE /\ databases' = DictSet(databases, db, read_csv(db_path))
                   /\ pos' = pos + 1
                   /\ UNCHANGED <<ret, pc>>
    /\ UNCHANGED <<files, category, paths, rules, issues, missing, exc, failed,
                   parsed, checked, noComment, wellFormed, call>>

GetDatabasesReturn ==
    /\ pc = "databases_loop"
    /\ pos = Len(paths)
    /\ ret' = [NoRet EXCEPT !.kind = "databases", !.databases = databases]
    /\ pc' = "databases_returned"
    /\ UNCHANGED <<files, category, paths, pos, rules, issues, missing, databases,
                   exc, failed, parsed, checked, noComment, wellFormed, stdout, call>>

(* ------------------- a direct call of get_paths_dict ------------------- *)
Categories == {"rules", "databases", "samples"}

CallGetPathsDict ==
    /\ pc = "idle"
    /\ \E db_rule \in Categories :
         /\ category' = db_rule
         /\ \E globbed \in glob(files, db_rule) :
                paths' = get_paths_dict(globbed, db_rule)
    /\ pc' = "paths_returned"
    /\ UNCHANGED <<files, pos, rules, issues, missing, databases, ret, exc,
                   failed, parsed, checked, noComment, wellFormed, stdout, call>>

(* --------------------------- the library in use ------------------------ *)
\* The files under root_dir. get_rules reads normalization/rules only and
\* get_databases normalization/databases only, so one of the two directories
\* is populated at a time.
Init ==
    /\ files \in (SUBSET RuleDirFiles) \cup (SUBSET DatabaseDirFiles)
    /\ pc = "idle"
    /\ category = ""
    /\ paths = <<>>
    /\ pos = 0
    /\ rules = <<>>
    /\ issues = <<>>
    /\ missing = <<>>
    /\ databases = <<>>
    /\ ret = NoRet
    /\ exc = ""
    /\ failed = NoFile
    /\ parsed = {}
    /\ noComment = {}
    /\ checked = {}
    /\ wellFormed = TRUE
    /\ stdout = <<>>
    /\ call = NoCall

Next ==
    \/ GetRulesStart
    \/ GetRulesContinue
    \/ GetRulesBody
    \/ GetRulesRaise
    \/ GetRulesReturn
    \/ GetDatabasesStart
    \/ GetDatabasesIter
    \/ GetDatabasesReturn
    \/ CallGetPathsDict

Spec == Init /\ [][Next]_vars

(* ------------------- the functions called one at a time ---------------- *)
ArgPaths == RuleDirFiles \cup DatabaseDirFiles

ArgKinds == {"rule", "database", "sample"}

ArgFiles == {[exists |-> FALSE, lines |-> <<>>]}
            \cup {[exists |-> TRUE, lines |-> l] : l \in FileContents}

Columns == {"country", "height_cm", "notes"}

KeyOrders == UNION {Orders(S) : S \in SUBSET ConstraintLines}

ColumnOrders == UNION {Orders(S) : S \in {T \in SUBSET Columns : Cardinality(T) <= MaxColumns}}

RuleSets ==
    UNION {{[n \in 1..Len(cols) |-> [key |-> cols[n], val |-> DictRule(ks[n])]] :
               ks \in [1..Len(cols) -> KeyOrders]} : cols \in ColumnOrders}

CallCheckFileExistence ==
    /\ pc = "idle"
    /\ pc' = "called"
    /\ \E path \in ArgPaths, data \in ArgKinds :
        /\ call' = [NoCall EXCEPT !.fn = "check_file_existence", !.path = path,
                                  !.kind = data,
                                  !.guard = check_file_existence(path, data)]
        /\ UNCHANGED <<files, category, paths, pos, rules, issues, missing,
                       databases, ret, exc, failed, parsed, checked, noComment,
                       wellFormed, stdout>>

CallParseYmlFile ==
    /\ pc = "idle"
    /\ pc' = "called"
    /\ \E yml_path \in ArgPaths, file \in ArgFiles :
        /\ call' = [NoCall EXCEPT !.fn = "parse_yml_file", !.path = yml_path,
                                  !.file = file,
                                  !.parse = parse_yml_file(yml_path, file)]
        /\ UNCHANGED <<files, category, paths, pos, rules, issues, missing,
                       databases, ret, exc, failed, parsed, checked, noComment,
                       wellFormed, stdout>>

CallGetRulesDict ==
    /\ pc = "idle"
    /\ pc' = "called"
    /\ \E rs \in RuleSets :
        /\ call' = [NoCall EXCEPT !.fn = "get_rules_dict", !.rules = rs,
                                  !.index = get_rules_dict(rs)]
        /\ UNCHANGED <<files, category, paths, pos, rules, issues, missing,
                       databases, ret, exc, failed, parsed, checked, noComment,
                       wellFormed, stdout>>

InitUnit ==
    /\ files = {}
    /\ pc = "idle"
    /\ category = ""
    /\ paths = <<>>
    /\ pos = 0
    /\ rules = <<>>
    /\ issues = <<>>
    /\ missing = <<>>
    /\ databases = <<>>
    /\ ret = NoRet
    /\ exc = ""
    /\ failed = NoFile
    /\ parsed = {}
    /\ noComment = {}
    /\ checked = {}
    /\ wellFormed = TRUE
    /\ stdout = <<>>
    /\ call = NoCall

NextUnit ==
    \/ CallCheckFileExistence
    \/ CallParseYmlFile
    \/ CallGetRulesDict

SpecUnit == InitUnit /\ [][NextUnit]_vars

(* -------- the loop of get_databases over any discovered mapping -------- *)
DatabaseNames == {"countries", "units", "taxa"}

DatabaseExts == {".csv", ".tsv"}

DiscoveredDicts ==
    UNION {{[n \in 1..Len(dbs) |->
                [key |-> dbs[n],
                 val |-> Path(Append(DatabasesDir, dbs[n]), "list", exts[n])]] :
               exts \in [1..Len(dbs) -> DatabaseExts]} :
           dbs \in UNION {Orders(S) : S \in SUBSET DatabaseNames}}

InitLoader ==
    /\ paths \in DiscoveredDicts
    /\ files = {paths[n].val : n \in 1..Len(paths)}
    /\ pc = "databases_loop"
    /\ category = "databases"
    /\ pos = 0
    /\ rules = <<>>
    /\ issues = <<>>
    /\ missing = <<>>
    /\ databases = <<>>
    /\ ret = NoRet
    /\ exc = ""
    /\ failed = NoFile
    /\ parsed = {}
    /\ noComment = {}
    /\ checked = {}
    /\ wellFormed = TRUE
    /\ stdout = <<>>
    /\ call = NoCall

NextLoader ==
    \/ GetDatabasesIter
    \/ GetDatabasesReturn

SpecLoader == InitLoader /\ [][NextLoader]_vars

(* ------------------------------ properties ----------------------------- *)
\* the columns of rs, in its order, whose rule has r as a key
ColumnsDeclaring(rs, r) ==
    SelectSeq(DictKeys(rs), LAMBDA c : r \in Range(DictGet(rs, c).keys))

\* C1: get_rules_dict is an exact, order-preserving inverse index: for every
\* constraint name r, RuleIndex[r] is the sequence of the columns, in RuleSet
\* order, whose rule has r as a key, and r is a key of RuleIndex only if some
\* column declares it.
C1_InverseIndex ==
    call.fn = "get_rules_dict" =>
        /\ Range(DictKeys(call.index)) \subseteq ConstraintLines
        /\ Len(call.index) = Cardinality(Range(DictKeys(call.index)))
        /\ \A r \in ConstraintLines :
              IF ColumnsDeclaring(call.rules, r) = <<>>
              THEN ~DictHas(call.index, r)
              ELSE /\ DictHas(call.index, r)
                   /\ DictGet(call.index, r) = ColumnsDeclaring(call.rules, r)

C1_Witness ==
    /\ call.fn = "get_rules_dict"
    /\ DictKeys(call.rules) = <<"height_cm", "country">>
    /\ DictHas(call.index, "blank")
    /\ DictGet(call.index, "blank") = <<"height_cm", "country">>
    /\ DictHas(call.index, "format")
    /\ DictGet(call.index, "format") = <<"country">>
    /\ ~DictHas(call.index, "missing")

\* C2: after get_rules returns, MissingMandatory holds (rule_name, m, 1)
\* exactly when rule_name is a processed rule, m is 'blank' or 'format' and m
\* is not a key of that rule; each mandatory constraint is checked on its own,
\* so a rule lacking both has two entries and a rule with both has none.
C2_MissingMandatory ==
    pc = "rules_returned" =>
        /\ Range(ret.missing) =
              {<<n, m, 1>> : n \in Range(DictKeys(ret.rules)), m \in {"blank", "format"}}
              \ {e \in {<<n, m, 1>> : n \in Range(DictKeys(ret.rules)),
                                       m \in {"blank", "format"}} :
                    e[2] \in Range(DictGet(ret.rules, e[1]).keys)}
        /\ Len(ret.missing) = Cardinality(Range(ret.missing))

C2_Witness ==
    /\ pc = "rules_returned"
    /\ DictHas(ret.rules, "country")
    /\ DictHas(ret.rules, "height_cm")
    /\ DictGet(ret.rules, "country").keys = <<"blank", "format">>
    /\ DictGet(ret.rules, "height_cm").keys = <<"missing">>
    /\ Range(ret.missing) = {<<"height_cm", "blank", 1>>, <<"height_cm", "format", 1>>}

\* the names of the rule files under normalization/rules
DiscoveredRuleNames == {p.stem : p \in {q \in files : q.dir = RulesDir /\ q.ext = ".yml"}}

\* C3: get_rules processes only the allow-listed rule names: the keys of the
\* returned RuleSet are the discovered names that are 'country' or
\* 'height_cm', and a file of another name is never parsed, never checked and
\* never the one whose iteration raises.
C3_AllowList ==
    /\ parsed \subseteq {"country", "height_cm"}
    /\ checked \subseteq {"country", "height_cm"}
    /\ pc = "rules_raised" => failed.name \in {"country", "height_cm"}
    /\ pc = "rules_returned" =>
          Range(DictKeys(ret.rules)) = DiscoveredRuleNames \cap {"country", "height_cm"}

C3_Witness ==
    /\ pc = "rules_returned"
    /\ "notes" \in DiscoveredRuleNames
    /\ Range(DictKeys(ret.rules)) = {"country", "height_cm"}
    /\ DictKeys(paths)[1] = "notes"

\* the lines after the last comment line
AfterLastComment(lines) ==
    LET last == CHOOSE n \in 1..Len(lines) :
                    /\ lines[n] = Comment
                    /\ \A m \in (n + 1)..Len(lines) : lines[m] # Comment
    IN  SubSeq(lines, last + 1, Len(lines))

\* C4: for every rule file (path ending in .yml) whose first line is a comment
\* and whose content is well-formed, parse_yml_file succeeds and returns a
\* mapping none of whose keys comes from the stripped header; this includes a
\* file of comment lines only.
C4_LeadingCommentGivesMapping ==
    ( /\ call.fn = "parse_yml_file"
      /\ call.path.ext = ".yml"
      /\ call.file.exists
      /\ call.file.lines # <<>>
      /\ call.file.lines[1] = Comment
      /\ \A n \in 1..Len(call.file.lines) : call.file.lines[n] # Malformed )
    => /\ call.parse.status = "ok"
       /\ call.parse.rule.tag = "dict"
       /\ Range(call.parse.rule.keys) \subseteq Range(AfterLastComment(call.file.lines))

\* C5: a rule file without any comment line makes parse_yml_file raise, and in
\* get_rules that error aborts the batch: nothing is returned, however many
\* rules were processed before.
C5_NoCommentAbortsBatch ==
    noComment # {} =>
        /\ pc = "rules_raised"
        /\ exc = "IndexError"
        /\ failed.name \in noComment
        /\ \A n \in 1..Len(failed.lines) : failed.lines[n] # Comment
        /\ ret = NoRet

C5_Witness ==
    /\ pc = "rules_raised"
    /\ noComment # {}
    /\ rules # <<>>
    /\ failed.lines = <<"blank", "format">>

\* C6: check_file_existence(path, kind) is true exactly when kind is 'rule' and
\* the path ends in '.yml', or kind is 'database' and the path ends in '.csv',
\* and false with a diagnostic otherwise; parse_yml_file returns an empty rule
\* without raising for every path the guard rejects, whatever the file is.
C6_ExtensionGuard ==
    /\ call.fn = "check_file_existence" =>
          /\ call.guard.ret = ( \/ call.kind = "rule" /\ call.path.ext = ".yml"
                                \/ call.kind = "database" /\ call.path.ext = ".csv" )
          /\ call.guard.printed = ~call.guard.ret
    /\ (call.fn = "parse_yml_file" /\ call.path.ext # ".yml") =>
          call.parse = Returned(DictRule(<<>>))

C6_Witness ==
    /\ call.fn = "parse_yml_file"
    /\ call.path.ext = ".csv"
    /\ ~call.file.exists
    /\ call.parse.status = "ok"
    /\ call.parse.rule = DictRule(<<>>)

\* C7: database loading is all-or-nothing on an extension failure: if the
\* guard rejects any discovered path, get_databases returns an empty mapping,
\* the tables loaded before included; if it accepts every path, the result has
\* exactly one table per discovered database name.
C7_AllOrNothing ==
    pc = "databases_returned" =>
        IF \E n \in 1..Len(paths) : paths[n].val.ext # ".csv"
        THEN ret.databases = <<>>
        ELSE /\ DictKeys(ret.databases) = DictKeys(paths)
             /\ \A n \in 1..Len(paths) :
                   ret.databases[n].val = [table_of |-> paths[n].val]

C7_Witness ==
    /\ pc = "databases_returned"
    /\ Len(databases) = 2
    /\ Len(paths) = 3
    /\ ret.databases = <<>>

\* C8: get_rules aborts the batch only through the two propagated cases: when
\* every allow-listed rule file has a comment line and well-formed content,
\* get_rules does not raise.
C8_OnlyFatalCasesAbort == wellFormed => pc # "rules_raised"

C10_DiscoveredPathsPassGuard ==
    /\ stdout = <<>>
    /\ category = "rules" =>
          \A n \in 1..Len(paths) : check_file_existence(paths[n].val, "rule").ret
    /\ category = "databases" =>
          \A n \in 1..Len(paths) : check_file_existence(paths[n].val, "database").ret
    /\ category \notin {"", "rules", "databases"} => paths = <<>>
    /\ \A n \in 1..Len(rules) : rules[n].val # DictRule(<<>>)
    /\ pc = "databases_returned" => DictKeys(ret.databases) = DictKeys(paths)

C10_Witness ==
    /\ pc = "databases_returned"
    /\ Path(Append(DatabasesDir, "units"), "readme", ".yml") \in files
    /\ Path(DatabasesDir, "index", ".csv") \in files
    /\ Len(ret.databases) = 2

====
